---- MODULE Spec2Model ----
(***************************************************************************)
(* Task planning and gated execution orchestrator.                         *)
(*                                                                         *)
(* The model follows src/modules/execution.py (ExecutionModule) and        *)
(* src/modules/task_planning.py (Task).  One run of execute_tasks is a     *)
(* sequential process whose position is pc; a step of the model is the     *)
(* code between two suspension points (an await of the feedback sink, of   *)
(* the approval oracle or of a handler).  The timestamp field of the       *)
(* feedback events is not modelled.                                        *)
(***************************************************************************)
EXTENDS Integers, Sequences, FiniteSets, TLC

VARIABLES
    tasks,      \* the plan: a sequence of Task objects (mutated in place)
    pc,         \* position of the run inside execute_tasks
    i,          \* index of the task the for loop is at
    results,    \* the local list `results` of execute_tasks
    events,     \* the calls made to feedback_callback, in order
    asked,      \* the calls made to approval_callback, in order, with the answer
    invoked,    \* the calls made to action handlers, in order
    nlu_result, \* the ParsedIntent the caller hands to create_task_plan
    prev_plan,  \* what the previous call of create_task_plan returned
    uuid_count, \* how many ids uuid.uuid4() has handed out
    parked,     \* the state of a second run of execute_tasks while it is suspended
    turn,       \* which of the two runs the variables tasks .. invoked belong to
    active_sessions, \* routes.py: the module-level dict active_sessions
    response,   \* routes.py: the last request and what it was answered with
    dispatched  \* routes.py: the tasks approve_task has executed, in order

\* routes.py: the state of the transport layer
api_vars == <<active_sessions, response, dispatched>>

\* the state of the callers of execute_tasks
caller_vars == <<nlu_result, prev_plan, uuid_count, parked, turn, api_vars>>

vars == <<tasks, pc, i, results, events, asked, invoked, caller_vars>>

\* no second run, no request served yet
NoRun == [pc |-> "none"]
NoResponse == [op |-> "none", code |-> 0]

Alone ==
    /\ parked = NoRun
    /\ turn = 1
    /\ active_sessions = <<>>
    /\ response = NoResponse
    /\ dispatched = <<>>

-----------------------------------------------------------------------------
(* Bounds of the model *)

MaxPlanLen == 3

\* longest plan of each of two interleaved runs
MaxPairLen == 1

\* /command requests are served while fewer than MaxUuid ids were handed out
MaxUuid == 5

-----------------------------------------------------------------------------
(* Python values *)

None == "null"

Get(params, key, default) ==
    IF key \in DOMAIN params THEN params[key] ELSE default

\* The values of a parameters (or params) mapping carry their Python type, as
\* isinstance, bool() and str() read it.  A number stands for the float n.0.
PyStr(s) == [str |-> s]
PyList(l) == [list |-> l]
PyNum(n) == [num |-> n]
PyNone == [none |-> TRUE]
IsStr(v) == "str" \in DOMAIN v

\* bool(v): None, "", 0.0 and [] are false
Truthy(v) ==
    CASE "none" \in DOMAIN v -> FALSE
      [] "str"  \in DOMAIN v -> v.str # ""
      [] "num"  \in DOMAIN v -> v.num # 0
      [] "list" \in DOMAIN v -> v.list # <<>>

RECURSIVE Join(_, _)
\* sep.join(strs) for a sequence of strings
Join(sep, strs) ==
    IF strs = <<>> THEN ""
    ELSE IF Len(strs) = 1 THEN strs[1]
    ELSE strs[1] \o sep \o Join(sep, Tail(strs))

\* str(v), as an f-string formats the value
Format(v) ==
    CASE "none" \in DOMAIN v -> "None"
      [] "str"  \in DOMAIN v -> v.str
      [] "num"  \in DOMAIN v -> ToString(v.num) \o ".0"
      [] "list" \in DOMAIN v ->
            "[" \o Join(", ", [n \in DOMAIN v.list |-> "'" \o v.list[n].str \o "'"]) \o "]"

-----------------------------------------------------------------------------
(* task_planning.py: the Task entity *)

\* faulty variant: a task is created as not needing approval
Task_NoApproval(id, action, params, description) ==
    [ id                |-> id,
      action            |-> action,
      params            |-> params,
      description       |-> description,
      status            |-> "pending",
      requires_approval |-> FALSE,
      approval_status   |-> "pending",
      error             |-> None ]

Task(id, action, params, description) ==
    [ id                |-> id,
      action            |-> action,
      params            |-> params,
      description       |-> description,
      status            |-> "pending",
      requires_approval |-> TRUE,
      approval_status   |-> "pending",
      error             |-> None ]

to_dict(task) == task

-----------------------------------------------------------------------------
(* execution.py: the action registry and the handlers *)

\* faulty variant: the registry has no handler for the planner's fallback task
action_handlers_NoFallback ==
    { "check_app_installed", "launch_app",
      "check_calendar_availability", "create_calendar_event",
      "verify_payment_details", "confirm_transaction", "execute_transaction",
      "fetch_analysis_data", "generate_analysis", "present_analysis_results",
      "request_clarification" }

action_handlers ==
    { "check_app_installed", "launch_app",
      "check_calendar_availability", "create_calendar_event",
      "verify_payment_details", "confirm_transaction", "execute_transaction",
      "fetch_analysis_data", "generate_analysis", "present_analysis_results",
      "request_clarification", "unsupported_intent" }

installed_apps == {"calendar", "maps", "messages", "email", "photos", "camera"}

\* the empty dict {} of a result
EmptyResult == [empty |-> TRUE]

Returned(value) == [ok |-> TRUE, value |-> value]
Raised(msg)     == [ok |-> FALSE, msg |-> msg]

_handle_check_app_installed(params) ==
    LET app_name == Get(params, "app_name", PyNone)
    IN  Returned([installed |-> (IsStr(app_name) /\ app_name.str \in installed_apps),
                  app_name |-> app_name])

\* faulty variant: the app is launched without the installed-apps check
_handle_launch_app_NoCheck(params) ==
    Returned([launched |-> TRUE, app_name |-> Get(params, "app_name", PyNone)])

_handle_launch_app(params) ==
    LET app_name == Get(params, "app_name", PyNone)
        check_result == _handle_check_app_installed([app_name |-> app_name]).value
    IN  IF ~check_result.installed
        THEN Raised("App '" \o Format(app_name) \o "' is not installed")
        ELSE Returned([launched |-> TRUE, app_name |-> app_name])

_handle_confirm_transaction(params) == Returned([confirmed |-> TRUE])

\* faulty variant: a missing that is a str is not wrapped into a list
_handle_request_clarification_NoWrap(params) ==
    LET missing == Get(params, "missing", PyList(<<>>))
    IN  Returned([requires_clarification |-> TRUE, missing_parameters |-> missing])

_handle_request_clarification(params) ==
    LET missing == Get(params, "missing", PyList(<<>>))
    IN  Returned([requires_clarification |-> TRUE,
                  missing_parameters |->
                      IF IsStr(missing) THEN PyList(<<missing>>) ELSE missing])

_handle_unsupported_intent(params) ==
    Returned([supported |-> FALSE,
              original_text |-> Get(params, "original_text", PyNone)])

\* a value read from the clock or drawn by random: the model keeps where it
\* comes from, not the value
Unobserved(origin) == [unobserved |-> origin]

\* lines 176-193
_handle_check_calendar_availability(params) ==
    Returned([available |-> TRUE,
              date |-> Get(params, "date", PyNone),
              time |-> Get(params, "time", PyNone),
              duration |-> Get(params, "duration", PyNone),
              conflicts |-> PyList(<<>>)])

\* lines 195-216
_handle_create_calendar_event(params) ==
    Returned([created |-> TRUE,
              event_id |-> Unobserved("evt_ + datetime.now()"),
              date |-> Get(params, "date", PyNone),
              time |-> Get(params, "time", PyNone),
              duration |-> Get(params, "duration", PyNone),
              participants |-> Get(params, "participants", PyList(<<>>))])

\* lines 220-236
_handle_verify_payment_details(params) ==
    Returned([verified |-> TRUE,
              amount |-> Get(params, "amount", PyNone),
              recipient |-> Get(params, "recipient", PyNone),
              payment_method |-> Get(params, "payment_method", PyNone),
              fee |-> PyNum(0)])

\* lines 243-263
_handle_execute_transaction(params) ==
    Returned([success |-> TRUE,
              transaction_id |-> Unobserved("tx_ + datetime.now()"),
              amount |-> Get(params, "amount", PyNone),
              recipient |-> Get(params, "recipient", PyNone),
              payment_method |-> Get(params, "payment_method", PyNone),
              timestamp |-> Unobserved("datetime.now()")])

\* lines 267-297: ten data points with random values and categories
_handle_fetch_analysis_data(params) ==
    Returned([success |-> TRUE,
              metric |-> Get(params, "metric", PyNone),
              time_range |-> Get(params, "time_range", PyNone),
              grouping |-> Get(params, "grouping", PyNone),
              data_points |-> Unobserved("random")])

\* lines 299-338: statistics of ten freshly drawn data points (never an empty
\* list, so no division or max() of an empty sequence)
_handle_generate_analysis(params) ==
    LET grouping == Get(params, "grouping", PyNone)
        fetch_result == _handle_fetch_analysis_data(params).value
    IN  Returned([success |-> TRUE,
                  metric |-> Get(params, "metric", PyNone),
                  time_range |-> Get(params, "time_range", PyNone),
                  total |-> Unobserved("random"),
                  average |-> Unobserved("random"),
                  maximum |-> Unobserved("random"),
                  minimum |-> Unobserved("random"),
                  by_category |-> IF grouping = PyStr("category")
                                  THEN Unobserved("random") ELSE EmptyResult,
                  data_points |-> fetch_result.data_points])

\* lines 340-359
_handle_present_analysis_results(params) ==
    LET metric == Get(params, "metric", PyNone)
        format == Get(params, "format", PyStr("chart"))
    IN  Returned([success |-> TRUE,
                  metric |-> metric,
                  format |-> format,
                  rendering_instructions |->
                      [chart_type |-> IF format = PyStr("chart") THEN "bar" ELSE "table",
                       title |-> "Analysis of " \o Format(metric),
                       x_axis |-> "Date",
                       y_axis |-> "Value"]])

\* The outcome of awaiting action_handlers[action](params).
CallHandler(action, params) ==
    CASE action = "check_app_installed"   -> _handle_check_app_installed(params)
      [] action = "launch_app"            -> _handle_launch_app(params)
      [] action = "confirm_transaction"   -> _handle_confirm_transaction(params)
      [] action = "request_clarification" -> _handle_request_clarification(params)
      [] action = "unsupported_intent"    -> _handle_unsupported_intent(params)
      [] action = "check_calendar_availability" ->
            _handle_check_calendar_availability(params)
      [] action = "create_calendar_event" -> _handle_create_calendar_event(params)
      [] action = "verify_payment_details" -> _handle_verify_payment_details(params)
      [] action = "execute_transaction"   -> _handle_execute_transaction(params)
      [] action = "fetch_analysis_data"   -> _handle_fetch_analysis_data(params)
      [] action = "generate_analysis"     -> _handle_generate_analysis(params)
      [] action = "present_analysis_results" ->
            _handle_present_analysis_results(params)

-----------------------------------------------------------------------------
(* task_planning.py: TaskPlanner.  A template returns its list of tasks, or *)
(* raises; the ids are the next values of uuid.uuid4(), base + 1, base + 2. *)

EmptyDict == [k \in {} |-> PyNone]

task_templates == {"app_switch", "calendar", "transaction", "analysis"}

\* lines 64-87
_plan_app_switch(nlu, base) ==
    LET parameters == Get(nlu, "parameters", EmptyDict)
        app_name == Get(parameters, "app_name", PyNone)
    IN  IF ~Truthy(app_name)
        THEN Returned(<< Task(base + 1, "request_clarification",
                              [missing |-> PyStr("app_name")],
                              "Which app would you like to open?") >>)
        ELSE Returned(<< Task(base + 1, "check_app_installed",
                              [app_name |-> app_name],
                              "Checking if " \o Format(app_name) \o " is installed"),
                         Task(base + 2, "launch_app",
                              [app_name |-> app_name],
                              "Opening " \o Format(app_name)) >>)

\* faulty variant: elif instead of the second if, only the first missing field is listed
MissingParams_FirstOnly(parameters, required) ==
    LET all == SelectSeq(required, LAMBDA name : ~Truthy(Get(parameters, name, PyNone)))
    IN  IF all = <<>> THEN <<>> ELSE <<all[1]>>

\* lines 95-99 and 138-142: the required fields whose value is not truthy
\* faulty variant: a field is missing only when parameters has no key for it
MissingParams_KeyOnly(parameters, required) ==
    SelectSeq(required, LAMBDA name : name \notin DOMAIN parameters)

MissingParams(parameters, required) ==
    SelectSeq(required, LAMBDA name : ~Truthy(Get(parameters, name, PyNone)))

\* lines 102-106 and 145-149
ClarificationPlan(missing_params, base) ==
    << Task(base + 1, "request_clarification",
            [missing |-> PyList([n \in DOMAIN missing_params |-> PyStr(missing_params[n])])],
            "I need more information: " \o Join(", ", missing_params)) >>

\* lines 89-130
_plan_calendar(nlu, base) ==
    LET parameters == Get(nlu, "parameters", EmptyDict)
        missing_params == MissingParams(parameters, <<"date", "time">>)
        date == Get(parameters, "date", PyNone)
        time == Get(parameters, "time", PyNone)
        duration == Get(parameters, "duration", PyStr("1 hour"))
    IN  IF missing_params # <<>>
        THEN Returned(ClarificationPlan(missing_params, base))
        ELSE Returned(<< Task(base + 1, "check_calendar_availability",
                              [date |-> date, time |-> time, duration |-> duration],
                              "Checking availability on " \o Format(date)
                                  \o " at " \o Format(time)),
                         Task(base + 2, "create_calendar_event",
                              [date |-> date, time |-> time, duration |-> duration,
                               participants |->
                                   Get(parameters, "participants", PyList(<<>>))],
                              "Creating calendar event on " \o Format(date)
                                  \o " at " \o Format(time)) >>)

\* lines 132-186
_plan_transaction(nlu, base) ==
    LET parameters == Get(nlu, "parameters", EmptyDict)
        missing_params == MissingParams(parameters, <<"amount", "recipient">>)
        amount == Get(parameters, "amount", PyNone)
        recipient == Get(parameters, "recipient", PyNone)
        payment_method == Get(parameters, "payment_method", PyStr("default"))
        params == [amount |-> amount, recipient |-> recipient,
                   payment_method |-> payment_method]
    IN  IF missing_params # <<>>
        THEN Returned(ClarificationPlan(missing_params, base))
        ELSE Returned(<< Task(base + 1, "verify_payment_details", params,
                              "Verifying payment details for " \o Format(amount)
                                  \o " to " \o Format(recipient)),
                         Task(base + 2, "confirm_transaction", params,
                              "Confirming payment of " \o Format(amount)
                                  \o " to " \o Format(recipient)),
                         Task(base + 3, "execute_transaction", params,
                              "Sending " \o Format(amount)
                                  \o " to " \o Format(recipient)) >>)

\* lines 188-226
_plan_analysis(nlu, base) ==
    LET parameters == Get(nlu, "parameters", EmptyDict)
        metric == Get(parameters, "metric", PyNone)
        time_range == Get(parameters, "time_range", PyStr("last week"))
        grouping == Get(parameters, "grouping", PyNone)
    IN  Returned(<< Task(base + 1, "fetch_analysis_data",
                         [metric |-> metric, time_range |-> time_range,
                          grouping |-> grouping],
                         "Fetching data for " \o Format(metric)
                             \o " analysis over " \o Format(time_range)),
                    Task(base + 2, "generate_analysis",
                         [metric |-> metric, time_range |-> time_range,
                          grouping |-> grouping],
                         "Generating analysis for " \o Format(metric)),
                    Task(base + 3, "present_analysis_results",
                         [metric |-> metric, format |-> PyStr("chart")],
                         "Presenting " \o Format(metric) \o " analysis results") >>)

\* faulty variant: the fallback reads a key the ParsedIntent does not have
FallbackPlan_WrongKey(nlu, base) ==
    << Task(base + 1, "unsupported_intent",
            [original_text |-> Get(nlu, "text", PyNone)],
            "I'm not sure how to handle this request yet.") >>

\* lines 58-62: the fallback for an intent with no template
FallbackPlan(nlu, base) ==
    << Task(base + 1, "unsupported_intent",
            [original_text |-> Get(nlu, "original_text", PyNone)],
            "I'm not sure how to handle this request yet.") >>

\* faulty variant: the template table maps calendar to the transaction template
create_task_plan_WrongTemplate(nlu, base) ==
    LET intent == Get(nlu, "intent", PyNone)
    IN  IF IsStr(intent) /\ intent.str \in task_templates
        THEN CASE intent.str = "app_switch"  -> _plan_app_switch(nlu, base)
               [] intent.str = "calendar"    -> _plan_transaction(nlu, base)
               [] intent.str = "transaction" -> _plan_transaction(nlu, base)
               [] intent.str = "analysis"    -> _plan_analysis(nlu, base)
        ELSE Returned(FallbackPlan(nlu, base))

\* faulty variant: nlu_result["intent"] instead of .get, KeyError when the key is absent
create_task_plan_KeyError(nlu, base) ==
    IF "intent" \notin DOMAIN nlu
    THEN Raised("'intent'")
    ELSE LET intent == nlu["intent"]
         IN  IF IsStr(intent) /\ intent.str \in task_templates
             THEN CASE intent.str = "app_switch"  -> _plan_app_switch(nlu, base)
                    [] intent.str = "calendar"    -> _plan_calendar(nlu, base)
                    [] intent.str = "transaction" -> _plan_transaction(nlu, base)
                    [] intent.str = "analysis"    -> _plan_analysis(nlu, base)
             ELSE Returned(FallbackPlan(nlu, base))

\* lines 42-62
create_task_plan(nlu, base) ==
    LET intent == Get(nlu, "intent", PyNone)
    IN  IF IsStr(intent) /\ intent.str \in task_templates
        THEN CASE intent.str = "app_switch"  -> _plan_app_switch(nlu, base)
               [] intent.str = "calendar"    -> _plan_calendar(nlu, base)
               [] intent.str = "transaction" -> _plan_transaction(nlu, base)
               [] intent.str = "analysis"    -> _plan_analysis(nlu, base)
        ELSE Returned(FallbackPlan(nlu, base))

-----------------------------------------------------------------------------
(* The ParsedIntents a caller hands to create_task_plan: every intent label *)
(* with every parameters mapping below, each key present or absent.         *)

Absent == [absent |-> TRUE]

\* the mappings that give some of the keys of choices one of their values
MappingsOver(choices) ==
    UNION { { f \in [K -> UNION {choices[k] : k \in K}] :
                  \A k \in K : f[k] \in choices[k] } : K \in SUBSET DOMAIN choices }

ParameterMappings ==
    MappingsOver([app_name |-> {PyStr("calendar"), PyStr("slack"), PyStr(""), PyNone}])
    \cup MappingsOver([date |-> {PyStr("2024-03-05"), PyNone},
                       time |-> {PyStr("10:00"), PyStr("")},
                       duration |-> {PyStr("2 hours")},
                       participants |-> {PyList(<<PyStr("bob")>>)}])
    \cup MappingsOver([amount |-> {PyNum(50), PyNum(0)},
                       recipient |-> {PyStr("Alice"), PyStr("")},
                       payment_method |-> {PyStr("card")}])
    \cup MappingsOver([metric |-> {PyStr("sales")},
                       time_range |-> {PyStr("last month")},
                       grouping |-> {PyStr("category")}])

IntentLabels ==
    {PyStr("app_switch"), PyStr("calendar"), PyStr("transaction"),
     PyStr("analysis"), PyStr("weather")}

\* the dict with the given fields, a field that is Absent having no key
ParsedIntent(intent, original_text, parameters) ==
    LET full == [intent |-> intent, original_text |-> original_text,
                 parameters |-> parameters]
        keys == {k \in DOMAIN full : full[k] # Absent}
    IN  [k \in keys |-> full[k]]

NluResults ==
    { ParsedIntent(it, tx, pm) :
          it \in IntentLabels \cup {Absent},
          tx \in {PyStr("open calendar"), Absent},
          pm \in ParameterMappings \cup {Absent} }

-----------------------------------------------------------------------------
(* The plans a caller hands to execute_tasks *)

TaskPool ==
    { [action |-> "check_app_installed", params |-> [app_name |-> PyStr("calendar")],
       description |-> "Checking if calendar is installed"],
      [action |-> "launch_app", params |-> [app_name |-> PyStr("slack")],
       description |-> "Opening slack"],
      [action |-> "send_email", params |-> [to |-> PyStr("bob")],
       description |-> "Sending an email to bob"] }

Plans ==
    UNION { [1..n -> TaskPool \X BOOLEAN] : n \in 0..MaxPlanLen }

NewPlan(choice) ==
    [k \in DOMAIN choice |->
        [Task(k, choice[k][1].action, choice[k][1].params, choice[k][1].description)
            EXCEPT !.requires_approval = choice[k][2]]]

Init ==
    /\ \E choice \in Plans : tasks = NewPlan(choice)
    /\ pc = "loop"
    /\ i = 1
    /\ results = <<>>
    /\ events = <<>>
    /\ asked = <<>>
    /\ invoked = <<>>
    /\ nlu_result = <<>>
    /\ prev_plan = <<>>
    /\ uuid_count = Len(tasks)
    /\ Alone

-----------------------------------------------------------------------------
(* execution.py: execute_tasks, one action per step between suspension points *)

SetTask(k, field, value) == [tasks EXCEPT ![k][field] = value]

\* lines 68-72: await feedback_callback({"type": "task_started", ...})
EmitStarted ==
    /\ pc = "loop"
    /\ i <= Len(tasks)
    /\ events' = Append(events, [type |-> "task_started", task |-> to_dict(tasks[i])])
    /\ pc' = "gate"
    /\ UNCHANGED <<caller_vars, tasks, i, results, asked, invoked>>

\* faulty variant: a task that needs no approval is marked approved
SkipApproval_MarksApproved ==
    /\ pc = "gate"
    /\ ~tasks[i].requires_approval
    /\ tasks' = [tasks EXCEPT ![i].approval_status = "approved",
                              ![i].status = "in_progress"]
    /\ pc' = "dispatch"
    /\ UNCHANGED <<caller_vars, i, results, events, asked, invoked>>

\* line 75 false, line 94: the task needs no approval
SkipApproval ==
    /\ pc = "gate"
    /\ ~tasks[i].requires_approval
    /\ tasks' = SetTask(i, "status", "in_progress")
    /\ pc' = "dispatch"
    /\ UNCHANGED <<caller_vars, i, results, events, asked, invoked>>

\* faulty variant: the requires_approval flag is ignored, every task is put to the oracle
AskApproval_Ungated ==
    /\ pc = "gate"
    /\ asked' = Append(asked, [task |-> i, answer |-> "waiting"])
    /\ pc' = "await_approval"
    /\ UNCHANGED <<caller_vars, tasks, i, results, events, invoked>>

\* lines 75-76: approval_callback(task) is called and awaited
AskApproval ==
    /\ pc = "gate"
    /\ tasks[i].requires_approval
    /\ asked' = Append(asked, [task |-> i, answer |-> "waiting"])
    /\ pc' = "await_approval"
    /\ UNCHANGED <<caller_vars, tasks, i, results, events, invoked>>

\* faulty variant: an approved task is marked by clearing its requires_approval flag
ApprovalGranted_ClearsFlag ==
    /\ pc = "await_approval"
    /\ asked' = [asked EXCEPT ![Len(asked)].answer = "True"]
    /\ tasks' = [tasks EXCEPT ![i].approval_status = "approved",
                              ![i].requires_approval = FALSE,
                              ![i].status = "in_progress"]
    /\ pc' = "dispatch"
    /\ UNCHANGED <<caller_vars, i, results, events, invoked>>

\* lines 76-77, 91, 94: the oracle resolves to True
ApprovalGranted ==
    /\ pc = "await_approval"
    /\ asked' = [asked EXCEPT ![Len(asked)].answer = "True"]
    /\ tasks' = [tasks EXCEPT ![i].approval_status = "approved",
                              ![i].status = "in_progress"]
    /\ pc' = "dispatch"
    /\ UNCHANGED <<caller_vars, i, results, events, invoked>>

\* faulty variant: a declined task is marked rejected but is dispatched all the same
ApprovalRejected_FallsThrough ==
    /\ pc = "await_approval"
    /\ asked' = [asked EXCEPT ![Len(asked)].answer = "False"]
    /\ tasks' = [tasks EXCEPT ![i].approval_status = "rejected",
                              ![i].status = "in_progress"]
    /\ pc' = "dispatch"
    /\ UNCHANGED <<caller_vars, i, results, events, invoked>>

\* faulty variant: a declined task is marked rejected but its status is left alone
ApprovalRejected_NoFail ==
    /\ pc = "await_approval"
    /\ asked' = [asked EXCEPT ![Len(asked)].answer = "False"]
    /\ tasks' = [tasks EXCEPT ![i].approval_status = "rejected",
                              ![i].error = "User rejected this task"]
    /\ pc' = "emit_rejected"
    /\ UNCHANGED <<caller_vars, i, results, events, invoked>>

\* lines 76-80: the oracle resolves to False
ApprovalRejected ==
    /\ pc = "await_approval"
    /\ asked' = [asked EXCEPT ![Len(asked)].answer = "False"]
    /\ tasks' = [tasks EXCEPT ![i].approval_status = "rejected",
                              ![i].status = "failed",
                              ![i].error = "User rejected this task"]
    /\ pc' = "emit_rejected"
    /\ UNCHANGED <<caller_vars, i, results, events, invoked>>

\* faulty variant: continue instead of break, the loop goes on to the next task
EmitRejected_Continue ==
    /\ pc = "emit_rejected"
    /\ events' = Append(events, [type |-> "task_rejected", task |-> to_dict(tasks[i])])
    /\ i' = i + 1
    /\ pc' = "loop"
    /\ UNCHANGED <<caller_vars, tasks, results, asked, invoked>>

\* lines 82-89 and 139: task_rejected is emitted, break, return results
EmitRejected ==
    /\ pc = "emit_rejected"
    /\ events' = Append(events, [type |-> "task_rejected", task |-> to_dict(tasks[i])])
    /\ pc' = "done"
    /\ UNCHANGED <<caller_vars, tasks, i, results, asked, invoked>>

\* faulty variant: no membership test, the lookup raises KeyError, caught at line 127
UnknownAction_KeyError ==
    /\ pc = "dispatch"
    /\ tasks[i].action \notin action_handlers
    /\ tasks' = [tasks EXCEPT ![i].status = "failed",
                              ![i].error = "'" \o tasks[i].action \o "'"]
    /\ pc' = "emit_failed_error"
    /\ UNCHANGED <<caller_vars, i, results, events, asked, invoked>>

\* lines 98, 116-119: the action is not a key of the registry
UnknownAction ==
    /\ pc = "dispatch"
    /\ tasks[i].action \notin action_handlers
    /\ tasks' = [tasks EXCEPT ![i].status = "failed",
                              ![i].error = "Unknown action: " \o tasks[i].action]
    /\ pc' = "emit_failed_unknown"
    /\ UNCHANGED <<caller_vars, i, results, events, asked, invoked>>

\* lines 98-100: the handler is looked up, called with task.params and awaited
InvokeHandler ==
    /\ pc = "dispatch"
    /\ tasks[i].action \in action_handlers
    /\ invoked' = Append(invoked, [task |-> i, action |-> tasks[i].action,
                                   params |-> tasks[i].params,
                                   approval_status |-> tasks[i].approval_status])
    /\ pc' = "await_handler"
    /\ UNCHANGED <<caller_vars, tasks, i, results, events, asked>>

\* faulty variant: results = [...] instead of results.append(...)
HandlerReturns_Overwrites ==
    /\ pc = "await_handler"
    /\ LET out == CallHandler(tasks[i].action, tasks[i].params)
       IN  /\ out.ok
           /\ tasks' = SetTask(i, "status", "completed")
           /\ results' = <<[task |-> to_dict(tasks'[i]), result |-> out.value]>>
    /\ pc' = "emit_completed"
    /\ UNCHANGED <<caller_vars, i, events, asked, invoked>>

\* faulty variant: the status is not set to completed before the result is recorded
HandlerReturns_StaysInProgress ==
    /\ pc = "await_handler"
    /\ LET out == CallHandler(tasks[i].action, tasks[i].params)
       IN  /\ out.ok
           /\ results' = Append(results, [task |-> to_dict(tasks[i]), result |-> out.value])
    /\ pc' = "emit_completed"
    /\ UNCHANGED <<caller_vars, tasks, i, events, asked, invoked>>

\* lines 100-107: the handler returns a result
HandlerReturns ==
    /\ pc = "await_handler"
    /\ LET out == CallHandler(tasks[i].action, tasks[i].params)
       IN  /\ out.ok
           /\ tasks' = SetTask(i, "status", "completed")
           /\ results' = Append(results, [task |-> to_dict(tasks'[i]), result |-> out.value])
    /\ pc' = "emit_completed"
    /\ UNCHANGED <<caller_vars, i, events, asked, invoked>>

\* faulty variant: no try/except, the handler's exception leaves execute_tasks
HandlerRaises_Propagates ==
    /\ pc = "await_handler"
    /\ ~CallHandler(tasks[i].action, tasks[i].params).ok
    /\ pc' = "raised"
    /\ UNCHANGED <<caller_vars, tasks, i, results, events, asked, invoked>>

\* lines 100, 127-130: the handler raises, except Exception catches it
HandlerRaises ==
    /\ pc = "await_handler"
    /\ LET out == CallHandler(tasks[i].action, tasks[i].params)
       IN  /\ ~out.ok
           /\ tasks' = [tasks EXCEPT ![i].status = "failed", ![i].error = out.msg]
    /\ pc' = "emit_failed_error"
    /\ UNCHANGED <<caller_vars, i, results, events, asked, invoked>>

\* lines 110-115: task_completed is emitted, the loop goes on
EmitCompleted ==
    /\ pc = "emit_completed"
    /\ events' = Append(events, [type |-> "task_completed", task |-> to_dict(tasks[i]),
                                 result |-> results[Len(results)].result])
    /\ i' = i + 1
    /\ pc' = "loop"
    /\ UNCHANGED <<caller_vars, tasks, results, asked, invoked>>

\* faulty variant: the unknown action is recorded on the task but no event is emitted
EmitFailedUnknown_Silent ==
    /\ pc = "emit_failed_unknown"
    /\ i' = i + 1
    /\ pc' = "loop"
    /\ UNCHANGED <<caller_vars, tasks, results, events, asked, invoked>>

\* lines 121-126: task_failed is emitted for the unknown action, the loop goes on
EmitFailedUnknown ==
    /\ pc = "emit_failed_unknown"
    /\ events' = Append(events, [type |-> "task_failed", task |-> to_dict(tasks[i]),
                                 error |-> tasks[i].error])
    /\ i' = i + 1
    /\ pc' = "loop"
    /\ UNCHANGED <<caller_vars, tasks, results, asked, invoked>>

\* faulty variant: a task whose handler raised is run once more
EmitFailedError_RetriesOnce ==
    /\ pc = "emit_failed_error"
    /\ events' = Append(events, [type |-> "task_failed", task |-> to_dict(tasks[i]),
                                 error |-> tasks[i].error])
    /\ i' = IF \E n, m \in DOMAIN events :
                   /\ n # m
                   /\ events[n].type = "task_started" /\ events[n].task.id = tasks[i].id
                   /\ events[m].type = "task_started" /\ events[m].task.id = tasks[i].id
            THEN i + 1 ELSE i
    /\ pc' = "loop"
    /\ UNCHANGED <<caller_vars, tasks, results, asked, invoked>>

\* lines 132-137: task_failed is emitted for the caught error, the loop goes on
EmitFailedError ==
    /\ pc = "emit_failed_error"
    /\ events' = Append(events, [type |-> "task_failed", task |-> to_dict(tasks[i]),
                                 error |-> tasks[i].error])
    /\ i' = i + 1
    /\ pc' = "loop"
    /\ UNCHANGED <<caller_vars, tasks, results, asked, invoked>>

\* lines 66, 139: the plan is exhausted, return results
Return ==
    /\ pc = "loop"
    /\ i > Len(tasks)
    /\ pc' = "done"
    /\ UNCHANGED <<caller_vars, tasks, i, results, events, asked, invoked>>

Next ==
    \/ EmitStarted
    \/ SkipApproval
    \/ AskApproval
    \/ ApprovalGranted
    \/ ApprovalRejected
    \/ EmitRejected
    \/ UnknownAction
    \/ InvokeHandler
    \/ HandlerReturns
    \/ HandlerRaises
    \/ EmitCompleted
    \/ EmitFailedUnknown
    \/ EmitFailedError
    \/ Return

Spec == Init /\ [][Next]_vars

-----------------------------------------------------------------------------
(* execution.py: the same plan handed to execute_tasks again.  The Task     *)
(* objects keep the state the earlier run left; results and the callbacks'  *)
(* streams are those of the new call.                                       *)

\* lines 52-66: execute_tasks(tasks, ...) is called on a plan already executed
Rerun ==
    /\ pc = "done"
    /\ Len(tasks) > 0
    /\ pc' = "loop"
    /\ i' = 1
    /\ results' = <<>>
    /\ events' = <<>>
    /\ asked' = <<>>
    /\ invoked' = <<>>
    /\ UNCHANGED <<caller_vars, tasks>>

NextLife ==
    \/ Next
    \/ Rerun

SpecLife == Init /\ [][NextLife]_vars

-----------------------------------------------------------------------------
(* The planner feeding the orchestrator: execute_tasks runs on a plan that   *)
(* create_task_plan built from a ParsedIntent, or on one its caller built by *)
(* hand (nlu_result then records that there was no ParsedIntent).            *)

InitPlanRun ==
    /\ \/ /\ nlu_result = Absent
          /\ \E choice \in Plans : tasks = NewPlan(choice)
       \/ /\ nlu_result \in NluResults
          /\ create_task_plan(nlu_result, 0).ok
          /\ tasks = create_task_plan(nlu_result, 0).value
    /\ pc = "loop"
    /\ i = 1
    /\ results = <<>>
    /\ events = <<>>
    /\ asked = <<>>
    /\ invoked = <<>>
    /\ prev_plan = <<>>
    /\ uuid_count = Len(tasks)
    /\ Alone

SpecPlanRun == InitPlanRun /\ [][Next]_vars

\* every approval request and every handler call resolves, and the event loop
\* keeps scheduling the coroutine: no step of the run stays enabled forever
\* without being taken
SpecFair == Init /\ [][Next]_vars /\ WF_vars(Next)

-----------------------------------------------------------------------------
(* execution.py: one run of execute_tasks with callbacks that are not bound *)
(* to the contract: the oracle may resolve to a value that is neither True  *)
(* nor False, or raise; the sink may raise while delivering an event.       *)

\* the value a caller's oracle resolves to when the approval wait is cancelled
Cancelled == PyStr("cancelled")

SinkError == "feedback sink failed"

\* lines 76-77, 91, 94: the oracle resolves to "cancelled"; line 77 tests
\* `not approval`, which is False for a non-empty string
ApprovalCancelled ==
    /\ pc = "await_approval"
    /\ asked' = [asked EXCEPT ![Len(asked)].answer = "cancelled"]
    /\ IF ~Truthy(Cancelled)
       THEN /\ tasks' = [tasks EXCEPT ![i].approval_status = "rejected",
                                      ![i].status = "failed",
                                      ![i].error = "User rejected this task"]
            /\ pc' = "emit_rejected"
       ELSE /\ tasks' = [tasks EXCEPT ![i].approval_status = "approved",
                                      ![i].status = "in_progress"]
            /\ pc' = "dispatch"
    /\ UNCHANGED <<caller_vars, i, results, events, invoked>>

\* line 76: the oracle raises; the await is outside the try, the run ends
\* with the exception
ApprovalRaises ==
    /\ pc = "await_approval"
    /\ asked' = [asked EXCEPT ![Len(asked)].answer = "raised"]
    /\ pc' = "raised"
    /\ UNCHANGED <<caller_vars, tasks, i, results, events, invoked>>

\* lines 68-72: the sink raises on task_started, outside the try
EmitStartedRaises ==
    /\ pc = "loop"
    /\ i <= Len(tasks)
    /\ pc' = "raised"
    /\ UNCHANGED <<caller_vars, tasks, i, results, events, asked, invoked>>

\* lines 82-86: the sink raises on task_rejected, outside the try
EmitRejectedRaises ==
    /\ pc = "emit_rejected"
    /\ pc' = "raised"
    /\ UNCHANGED <<caller_vars, tasks, i, results, events, asked, invoked>>

\* faulty variant: the task_completed emit is outside the try
EmitCompletedRaises_Propagates ==
    /\ pc = "emit_completed"
    /\ pc' = "raised"
    /\ UNCHANGED <<caller_vars, tasks, i, results, events, asked, invoked>>

\* lines 110-115, 127-130: the sink raises on task_completed, inside the try:
\* except Exception marks the task failed; its result entry stays in results
EmitCompletedRaises ==
    /\ pc = "emit_completed"
    /\ tasks' = [tasks EXCEPT ![i].status = "failed", ![i].error = SinkError]
    /\ pc' = "emit_failed_error"
    /\ UNCHANGED <<caller_vars, i, results, events, asked, invoked>>

\* lines 121-130: the sink raises on the unknown action's task_failed, inside
\* the try: except Exception replaces the error text
EmitFailedUnknownRaises ==
    /\ pc = "emit_failed_unknown"
    /\ tasks' = [tasks EXCEPT ![i].status = "failed", ![i].error = SinkError]
    /\ pc' = "emit_failed_error"
    /\ UNCHANGED <<caller_vars, i, results, events, asked, invoked>>

\* lines 132-137: the sink raises on task_failed inside the except block
EmitFailedErrorRaises ==
    /\ pc = "emit_failed_error"
    /\ pc' = "raised"
    /\ UNCHANGED <<caller_vars, tasks, i, results, events, asked, invoked>>

NextEnv ==
    \/ Next
    \/ ApprovalCancelled
    \/ ApprovalRaises
    \/ EmitStartedRaises
    \/ EmitRejectedRaises
    \/ EmitCompletedRaises
    \/ EmitFailedUnknownRaises
    \/ EmitFailedErrorRaises

SpecEnv == Init /\ [][NextEnv]_vars

-----------------------------------------------------------------------------
(* execution.py: two runs of execute_tasks on the same ExecutionModule,     *)
(* over two plans with no Task in common, as two coroutines of one event    *)
(* loop.  The variables tasks .. invoked hold the run that is executing;    *)
(* parked holds the run that is suspended.  execute_tasks keeps its state   *)
(* in locals (results, the loop position) and in the Task objects it was    *)
(* handed; self.action_handlers and self.os_connector are only read.        *)

PairPlans ==
    UNION { [1..n -> TaskPool \X BOOLEAN] : n \in 0..MaxPairLen }

\* the Task objects of a plan whose ids follow the ids already handed out
NewPlanFrom(choice, base) ==
    [k \in DOMAIN choice |-> [NewPlan(choice)[k] EXCEPT !.id = base + k]]

Running ==
    [tasks |-> tasks, pc |-> pc, i |-> i, results |-> results, events |-> events,
     asked |-> asked, invoked |-> invoked]

InitPair ==
    /\ \E c1 \in PairPlans, c2 \in PairPlans :
          /\ tasks = NewPlan(c1)
          /\ parked = [tasks |-> NewPlanFrom(c2, Len(c1)), pc |-> "loop", i |-> 1,
                       results |-> <<>>, events |-> <<>>, asked |-> <<>>,
                       invoked |-> <<>>]
          /\ uuid_count = Len(c1) + Len(c2)
    /\ pc = "loop"
    /\ i = 1
    /\ results = <<>>
    /\ events = <<>>
    /\ asked = <<>>
    /\ invoked = <<>>
    /\ nlu_result = <<>>
    /\ prev_plan = <<>>
    /\ turn = 1
    /\ active_sessions = <<>>
    /\ response = NoResponse
    /\ dispatched = <<>>

\* the executing run is at an await that yields to the event loop (line 76,
\* line 100), has not begun, or is over
CanYield ==
    \/ pc \in {"await_approval", "await_handler", "done"}
    \/ pc = "loop" /\ i = 1

\* faulty variant: results is an attribute of the module, shared by the runs
Switch_SharedResults ==
    /\ parked # NoRun
    /\ CanYield
    /\ parked.pc # "done"
    /\ tasks' = parked.tasks
    /\ pc' = parked.pc
    /\ i' = parked.i
    /\ results' = results
    /\ events' = parked.events
    /\ asked' = parked.asked
    /\ invoked' = parked.invoked
    /\ parked' = [Running EXCEPT !.results = parked.results]
    /\ turn' = 3 - turn
    /\ UNCHANGED <<nlu_result, prev_plan, uuid_count, api_vars>>

\* lines 76, 100: the event loop suspends the executing run and resumes the
\* other one where it stopped
Switch ==
    /\ parked # NoRun
    /\ CanYield
    /\ parked.pc # "done"
    /\ tasks' = parked.tasks
    /\ pc' = parked.pc
    /\ i' = parked.i
    /\ results' = parked.results
    /\ events' = parked.events
    /\ asked' = parked.asked
    /\ invoked' = parked.invoked
    /\ parked' = Running
    /\ turn' = 3 - turn
    /\ UNCHANGED <<nlu_result, prev_plan, uuid_count, api_vars>>

NextPair ==
    \/ Next
    \/ Switch

SpecPair == InitPair /\ [][NextPair]_vars

-----------------------------------------------------------------------------
(* routes.py: the transport layer.  Each request is served in one step      *)
(* (neither endpoint reaches an await that suspends before it answers).     *)

\* what NLUModule.parse_command returns for the texts of the model: every
\* key is set, and parameters holds only the non-empty extracted values
ParserOutputs ==
    { ParsedIntent(PyStr("app_switch"), PyStr("open calendar"),
                   [app_name |-> PyStr("calendar")]),
      ParsedIntent(PyStr("calendar"), PyStr("schedule a meeting on 2024-03-05"),
                   [date |-> PyStr("2024-03-05")]),
      ParsedIntent(PyStr("transaction"), PyStr("send 50 to Alice"),
                   [amount |-> PyNum(50), recipient |-> PyStr("Alice")]),
      ParsedIntent(PyStr("weather"), PyStr("will it rain"), EmptyDict) }

\* CommandRequest.session_id: Optional[str]
RequestSessionIds == {PyNone, PyStr(""), PyStr("s1")}

\* line 49: str(uuid.uuid4())
FreshSessionId(n) == "uuid-" \o ToString(n)

\* line 67: the plan summary
PlanMessage(plan) ==
    "I'll help you with that. Here's what I'll do:\n"
        \o Join("\n", [k \in DOMAIN plan |-> "- " \o plan[k].description])

InitApi ==
    /\ active_sessions = <<>>
    /\ response = NoResponse
    /\ dispatched = <<>>
    /\ uuid_count = 0
    /\ nlu_result = <<>>
    /\ prev_plan = <<>>
    /\ parked = NoRun
    /\ turn = 1
    /\ tasks = <<>>
    /\ pc = "serving"
    /\ i = 1
    /\ results = <<>>
    /\ events = <<>>
    /\ asked = <<>>
    /\ invoked = <<>>

\* faulty variant: the dict is rebound to one that holds the new entry only
Store_Reassigns(sessions, session_id, value) ==
    [k \in {session_id} |-> value]

\* active_sessions[session_id] = value
Store(sessions, session_id, value) ==
    [k \in DOMAIN sessions \cup {session_id} |->
        IF k = session_id THEN value ELSE sessions[k]]

\* faulty variant: the plan is stored under a fresh id whatever the request says
ProcessCommand_AlwaysFresh(request_session_id, parsed) ==
    LET base == uuid_count + 1
        session_id == FreshSessionId(uuid_count + 1)
        plan == create_task_plan(parsed, base)
    IN  /\ plan.ok
        /\ nlu_result' = parsed
        /\ uuid_count' = base + Len(plan.value)
        /\ active_sessions' = Store(active_sessions, session_id,
                                    [parsed_intent |-> parsed, tasks |-> plan.value,
                                     status |-> "pending_approval"])
        /\ response' = [op |-> "command", request |-> [session_id |-> request_session_id],
                        code |-> 200,
                        session_id |-> IF Truthy(request_session_id)
                                       THEN request_session_id.str ELSE session_id,
                        parsed_intent |-> parsed,
                        tasks |-> [k \in DOMAIN plan.value |-> to_dict(plan.value[k])],
                        message |-> PlanMessage(plan.value)]
        /\ prev_plan' = <<>>
        /\ UNCHANGED <<tasks, pc, i, results, events, asked, invoked,
                       parked, turn, dispatched>>

\* lines 45-74: POST /command, the parser returns.  prev_plan keeps the plan
\* that line 59 overwrites (<<>> when the session id was not stored before).
ProcessCommand(request_session_id, parsed) ==
    LET fresh == ~Truthy(request_session_id)
        base == IF fresh THEN uuid_count + 1 ELSE uuid_count
        session_id == IF fresh THEN FreshSessionId(uuid_count + 1)
                      ELSE request_session_id.str
        plan == create_task_plan(parsed, base)
    IN  /\ nlu_result' = parsed
        /\ IF plan.ok
           THEN /\ uuid_count' = base + Len(plan.value)
                /\ active_sessions' = Store(active_sessions, session_id,
                                            [parsed_intent |-> parsed,
                                             tasks |-> plan.value,
                                             status |-> "pending_approval"])
                /\ response' = [op |-> "command", request |-> [session_id |-> request_session_id],
                        code |-> 200,
                                session_id |-> session_id,
                                parsed_intent |-> parsed,
                                tasks |-> [k \in DOMAIN plan.value |->
                                              to_dict(plan.value[k])],
                                message |-> PlanMessage(plan.value)]
                /\ prev_plan' = IF session_id \in DOMAIN active_sessions
                                THEN active_sessions[session_id].tasks ELSE <<>>
           ELSE /\ uuid_count' = base
                /\ response' = [op |-> "command", request |-> [session_id |-> request_session_id],
                        code |-> 500,
                                detail |-> "Error processing command: " \o plan.msg]
                /\ UNCHANGED <<active_sessions, prev_plan>>
        /\ UNCHANGED <<tasks, pc, i, results, events, asked, invoked,
                       parked, turn, dispatched>>

\* lines 51-53, 76-78: POST /command, the parser raises
ProcessCommandParseError(request_session_id) ==
    /\ uuid_count' = IF Truthy(request_session_id) THEN uuid_count ELSE uuid_count + 1
    /\ response' = [op |-> "command", request |-> [session_id |-> request_session_id],
                        code |-> 500,
                    detail |-> "Error processing command: parse failed"]
    /\ UNCHANGED <<tasks, pc, i, results, events, asked, invoked, nlu_result,
                   prev_plan, parked, turn, active_sessions, dispatched>>

\* class Task (task_planning.py lines 4-27) defines no method get:
\* task.get(key) raises AttributeError
Task_get(task, key) == Raised("'Task' object has no attribute 'get'")

RECURSIVE FindTask(_, _, _)
\* lines 94-98: the stored plan is searched from position k on
FindTask(plan, task_id, k) ==
    IF k > Len(plan) THEN Returned(<<>>)
    ELSE LET got == Task_get(plan[k], "task_id")
         IN  IF ~got.ok THEN got
             ELSE IF got.value = task_id THEN Returned(<<plan[k]>>)
             ELSE FindTask(plan, task_id, k + 1)

\* line 106: ExecutionModule defines execute_tasks, not execute_task:
\* the attribute lookup raises AttributeError
execute_task(task) == Raised("'ExecutionModule' object has no attribute 'execute_task'")

\* what the clients of the model send as task_id: the ids handed out, and one
\* that was not
RequestTaskIds == 0..uuid_count

\* faulty variant: the session is read without the membership test
ApproveTask_NoSessionTest(session_id, task_id, approved) ==
    /\ response' = [op |-> "approve",
                    request |-> [session_id |-> session_id, task_id |-> task_id,
                                 approved |-> approved],
                    code |-> 500, detail |-> "Internal Server Error"]
    /\ UNCHANGED <<tasks, pc, i, results, events, asked, invoked, nlu_result,
                   prev_plan, uuid_count, parked, turn, active_sessions, dispatched>>

\* lines 80-115: POST /approve-task
ApproveTask(session_id, task_id, approved) ==
    LET Request == [session_id |-> session_id, task_id |-> task_id,
                    approved |-> approved]
    IN
    IF session_id \notin DOMAIN active_sessions
    THEN \* lines 87-88
         /\ response' = [op |-> "approve", request |-> Request, code |-> 404,
                         detail |-> "Session " \o session_id \o " not found"]
         /\ UNCHANGED <<tasks, pc, i, results, events, asked, invoked, nlu_result,
                        prev_plan, uuid_count, parked, turn, active_sessions,
                        dispatched>>
    ELSE
      LET session == active_sessions[session_id]
          found == FindTask(session.tasks, task_id, 1)
      IN  IF ~found.ok
          THEN \* line 96 raises outside any try: the request fails
               /\ response' = [op |-> "approve", request |-> Request, code |-> 500,
                               detail |-> "Internal Server Error"]
               /\ UNCHANGED <<tasks, pc, i, results, events, asked, invoked,
                              nlu_result, prev_plan, uuid_count, parked, turn,
                              active_sessions, dispatched>>
          ELSE IF found.value = <<>>
          THEN \* lines 100-101
               /\ response' = [op |-> "approve", request |-> Request, code |-> 404,
                               detail |-> "Task not found in session"]
               /\ UNCHANGED <<tasks, pc, i, results, events, asked, invoked,
                              nlu_result, prev_plan, uuid_count, parked, turn,
                              active_sessions, dispatched>>
          ELSE IF approved
          THEN \* lines 103-111
               LET run == execute_task(found.value[1])
               IN  /\ IF run.ok
                      THEN /\ dispatched' = Append(dispatched, found.value[1].id)
                           /\ active_sessions' =
                                 [active_sessions EXCEPT ![session_id].status = "completed"]
                           /\ response' = [op |-> "approve", request |-> Request, code |-> 200,
                                           detail |-> "approved and executed"]
                      ELSE /\ response' = [op |-> "approve", request |-> Request, code |-> 500,
                                           detail |-> "Error executing task: " \o run.msg]
                           /\ UNCHANGED <<active_sessions, dispatched>>
                   /\ UNCHANGED <<tasks, pc, i, results, events, asked, invoked,
                                  nlu_result, prev_plan, uuid_count, parked, turn>>
          ELSE \* lines 112-115
               /\ active_sessions' =
                     [active_sessions EXCEPT ![session_id].status = "rejected"]
               /\ response' = [op |-> "approve", request |-> Request, code |-> 200, detail |-> "rejected"]
               /\ UNCHANGED <<tasks, pc, i, results, events, asked, invoked,
                              nlu_result, prev_plan, uuid_count, parked, turn,
                              dispatched>>

\* the session ids a client may send to /approve-task
ApproveSessionIds == DOMAIN active_sessions \cup {"unknown"}

ServeCommand ==
    /\ uuid_count < MaxUuid
    /\ \E sid \in RequestSessionIds, parsed \in ParserOutputs :
          ProcessCommand(sid, parsed)

ServeCommandParseError ==
    /\ uuid_count < MaxUuid
    /\ \E sid \in RequestSessionIds : ProcessCommandParseError(sid)

ServeApproveTask ==
    \E sid \in ApproveSessionIds, tid \in RequestTaskIds, approved \in BOOLEAN :
        ApproveTask(sid, tid, approved)

NextApi ==
    \/ ServeCommand
    \/ ServeCommandParseError
    \/ ServeApproveTask

SpecApi == InitApi /\ [][NextApi]_vars

-----------------------------------------------------------------------------
(* Vocabulary of the properties *)

EventTypes == {"task_started", "task_completed", "task_failed", "task_rejected"}
TerminalTypes == {"task_completed", "task_failed", "task_rejected"}

Positions == DOMAIN tasks

\* positions in the feedback stream of the events of task k
StartedPos(k) ==
    {n \in DOMAIN events : events[n].type = "task_started" /\ events[n].task.id = k}
TerminalPos(k) ==
    {n \in DOMAIN events : events[n].type \in TerminalTypes /\ events[n].task.id = k}
EventPos(k) == {n \in DOMAIN events : events[n].task.id = k}

\* calls of the approval oracle and of a handler for task k
AskedFor(k) == {n \in DOMAIN asked : asked[n].task = k}
InvokedFor(k) == {n \in DOMAIN invoked : invoked[n].task = k}
ResultsFor(k) == {n \in DOMAIN results : results[n].task.id = k}

\* the oracle answered False / True for task k in this run
RejectedAt(k) == \E n \in AskedFor(k) : asked[n].answer = "False"
ApprovedAt(k) == \E n \in AskedFor(k) : asked[n].answer = "True"

RunReturned == pc = "done"

\* the handler of task k was invoked and has raised
HandlerFailedAt(k) ==
    /\ InvokedFor(k) # {}
    /\ ~(pc = "await_handler" /\ i = k)
    /\ ~CallHandler(tasks[k].action, tasks[k].params).ok

\* task k was dispatched with an action that is not registered
UnknownAt(k) ==
    /\ tasks[k].action \notin action_handlers
    /\ (k < i \/ (k = i /\ pc = "emit_failed_unknown"))
    /\ ~RejectedAt(k)

RECURSIVE CompletedBelow(_)
\* the result entries of the completed tasks at positions 1..n, in plan order
CompletedBelow(n) ==
    IF n = 0 THEN <<>>
    ELSE IF tasks[n].status = "completed"
         THEN Append(CompletedBelow(n - 1),
                     [task |-> to_dict(tasks[n]),
                      result |-> CallHandler(tasks[n].action, tasks[n].params).value])
         ELSE CompletedBelow(n - 1)

TypesOf(seq) == [n \in DOMAIN seq |-> seq[n].type]

-----------------------------------------------------------------------------
(* C1: rejection halts the run.  If the oracle answered False for the task  *)
(* at position j, then no task at a position > j has a task_started (or any *)
(* other) event, an oracle call or a handler call; the run is at its return *)
(* and the result list is the one built before the rejection (the entries   *)
(* of the completed tasks below j, in order).  Rejecting the first task     *)
(* gives exactly the events started, rejected and an empty result list.     *)
C1_RejectionHalts ==
    \A j \in Positions : RejectedAt(j) =>
        /\ \A k \in Positions : k > j =>
              /\ EventPos(k) = {}
              /\ AskedFor(k) = {}
              /\ InvokedFor(k) = {}
        /\ pc \in {"emit_rejected", "done"}
        /\ results = CompletedBelow(j - 1)
        /\ (j = 1 /\ RunReturned) =>
              /\ TypesOf(events) = <<"task_started", "task_rejected">>
              /\ results = <<>>

C1_Witness ==
    /\ RunReturned
    /\ Len(tasks) = 3
    /\ RejectedAt(2)
    /\ Len(results) = 1

(* C2: approval gate safety.  A handler call for a task that requires       *)
(* approval happens only after the oracle answered True for that task in    *)
(* this run, with approval_status = approved at the call; a task that       *)
(* requires approval and is rejected or still pending has no handler call.  *)
C2_ApprovalGate ==
    /\ \A n \in DOMAIN invoked :
          tasks[invoked[n].task].requires_approval =>
              /\ invoked[n].approval_status = "approved"
              /\ ApprovedAt(invoked[n].task)
    /\ \A k \in Positions :
          (tasks[k].requires_approval /\ tasks[k].approval_status \in {"rejected", "pending"})
              => InvokedFor(k) = {}

C2_Witness ==
    \E n \in DOMAIN invoked :
        /\ tasks[invoked[n].task].requires_approval
        /\ \E k \in Positions : RejectedAt(k)

(* C3: shape of the feedback stream.  Only the four event types occur; a    *)
(* task never has more than one task_started and one terminal event, and    *)
(* its terminal event directly follows its task_started; when the run has   *)
(* returned, every task up to and including the first rejected one has      *)
(* exactly one of each, and every task after a rejection has no event.      *)
C3_FeedbackShape ==
    /\ \A n \in DOMAIN events : events[n].type \in EventTypes
    /\ \A k \in Positions :
          /\ Cardinality(StartedPos(k)) <= 1
          /\ Cardinality(TerminalPos(k)) <= 1
          /\ \A t \in TerminalPos(k) : (t - 1) \in StartedPos(k)
          /\ \A t \in TerminalPos(k) :
                (events[t].type = "task_rejected") <=> RejectedAt(k)
    /\ RunReturned =>
          \A k \in Positions :
              IF \E j \in Positions : j < k /\ RejectedAt(j)
              THEN EventPos(k) = {}
              ELSE /\ Cardinality(StartedPos(k)) = 1
                   /\ Cardinality(TerminalPos(k)) = 1

C3_Witness ==
    /\ RunReturned
    /\ Len(tasks) = 3
    /\ RejectedAt(2)
    /\ Len(events) = 4
    /\ events[2].type = "task_failed"

(* C4: a handler failure is contained.  Once the handler of a task has      *)
(* raised, the run is never left by an exception, the task is failed with   *)
(* the failure's message as error, it has no result entry, exactly one      *)
(* task_failed event carrying that error is emitted for it, and after that  *)
(* event the next task of the plan (if any) is started.                     *)
C4_HandlerFailureContained ==
    /\ pc # "raised"
    /\ \A k \in Positions : HandlerFailedAt(k) =>
          LET msg == CallHandler(tasks[k].action, tasks[k].params).msg
          IN  /\ tasks[k].status = "failed"
              /\ tasks[k].error = msg
              /\ ResultsFor(k) = {}
              /\ IF pc = "emit_failed_error" /\ i = k
                 THEN TerminalPos(k) = {}
                 ELSE /\ Cardinality(TerminalPos(k)) = 1
                      /\ \A t \in TerminalPos(k) :
                            /\ events[t].type = "task_failed"
                            /\ events[t].error = msg
                            /\ events[t].task = to_dict(tasks[k])
                      /\ k < Len(tasks) =>
                            \/ (pc = "loop" /\ i = k + 1)
                            \/ StartedPos(k + 1) # {}

C4_Witness ==
    /\ RunReturned
    /\ Len(tasks) >= 2
    /\ HandlerFailedAt(1)
    /\ tasks[1].error = "App 'slack' is not installed"
    /\ StartedPos(2) # {}

(* C5: an unknown action does not halt.  A dispatched task whose action is  *)
(* not a key of the registry has no handler call, is failed with error      *)
(* "Unknown action: <action>", has no result entry, gets exactly one        *)
(* task_failed event, and the next task of the plan is then started.        *)
C5_UnknownActionContinues ==
    \A k \in Positions : UnknownAt(k) =>
        /\ InvokedFor(k) = {}
        /\ tasks[k].status = "failed"
        /\ tasks[k].error = "Unknown action: " \o tasks[k].action
        /\ ResultsFor(k) = {}
        /\ IF pc = "emit_failed_unknown" /\ i = k
           THEN TerminalPos(k) = {}
           ELSE /\ Cardinality(TerminalPos(k)) = 1
                /\ \A t \in TerminalPos(k) :
                      /\ events[t].type = "task_failed"
                      /\ events[t].error = tasks[k].error
                /\ k < Len(tasks) =>
                      \/ (pc = "loop" /\ i = k + 1)
                      \/ StartedPos(k + 1) # {}

C5_Witness ==
    /\ RunReturned
    /\ Len(tasks) = 2
    /\ UnknownAt(1)
    /\ tasks[1].approval_status = "approved"
    /\ tasks[1].error = "Unknown action: send_email"
    /\ StartedPos(2) # {}

(* C6: state of a rejected task.  A task the oracle declined has            *)
(* approval_status = rejected, status = failed and error = "User rejected   *)
(* this task", no handler call and no result entry; the step that rejects   *)
(* it takes it from pending straight to failed, no later step changes it,   *)
(* and the run goes on to its normal return (never to an exception).        *)
C6_RejectedState ==
    \A k \in Positions : RejectedAt(k) =>
        /\ tasks[k].approval_status = "rejected"
        /\ tasks[k].status = "failed"
        /\ tasks[k].error = "User rejected this task"
        /\ InvokedFor(k) = {}
        /\ ResultsFor(k) = {}
        /\ \/ pc = "emit_rejected" /\ ENABLED EmitRejected
           \/ RunReturned

C6_RejectedStep ==
    \A k \in Positions :
        /\ (tasks[k].approval_status # "rejected" /\ tasks'[k].approval_status = "rejected")
              => (tasks[k].status = "pending" /\ tasks'[k].status = "failed")
        /\ tasks[k].approval_status = "rejected" => tasks'[k] = tasks[k]

C6_RejectedTask == [](C6_RejectedState) /\ [][C6_RejectedStep]_vars

C6_Witness ==
    /\ RunReturned
    /\ Len(tasks) = 2
    /\ tasks[1].status = "completed"
    /\ RejectedAt(2)
    /\ tasks[2].status = "failed"

(* C7: strict sequentiality.  At most one task is in_progress, and it is    *)
(* the task the loop is at; the n-th task_started event is that of the task *)
(* at position n, and for n > 1 the event right before it is the            *)
(* task_completed or task_failed event of the task at position n - 1;       *)
(* handlers are called in plan order.                                       *)
C7_Sequential ==
    /\ Cardinality({k \in Positions : tasks[k].status = "in_progress"}) <= 1
    /\ \A k \in Positions : tasks[k].status = "in_progress" => k = i
    /\ \A n \in DOMAIN events : events[n].type = "task_started" =>
          LET k == events[n].task.id
          IN  /\ k = Cardinality({m \in 1..n : events[m].type = "task_started"})
              /\ k > 1 =>
                    /\ n > 1
                    /\ events[n - 1].type \in {"task_completed", "task_failed"}
                    /\ events[n - 1].task.id = k - 1
    /\ \A m, n \in DOMAIN invoked : m < n => invoked[m].task < invoked[n].task

C7_Witness ==
    /\ Len(tasks) = 3
    /\ tasks[1].status = "failed"
    /\ tasks[2].status = "completed"
    /\ tasks[3].status = "in_progress"
    /\ pc = "await_handler"

(* C8: the approval oracle is called exactly once for every started task    *)
(* that requires approval, in plan order, after the task's task_started     *)
(* event and while its status is still pending; it is not called for a task *)
(* that needs no approval, and never after it has answered False.           *)
C8_OracleOncePerTask ==
    /\ \A n \in DOMAIN asked :
          /\ tasks[asked[n].task].requires_approval
          /\ StartedPos(asked[n].task) # {}
          /\ asked[n].answer = "waiting" =>
                (n = Len(asked) /\ tasks[asked[n].task].status = "pending")
          /\ asked[n].answer = "False" => n = Len(asked)
    /\ \A m, n \in DOMAIN asked : m < n => asked[m].task < asked[n].task
    /\ \A k \in Positions :
          /\ (tasks[k].requires_approval /\ StartedPos(k) # {} /\ ~(pc = "gate" /\ i = k))
                => Cardinality(AskedFor(k)) = 1
          /\ (tasks[k].requires_approval /\ tasks[k].status # "pending")
                => \E n \in AskedFor(k) : asked[n].answer \in {"True", "False"}

C8_Witness ==
    /\ RunReturned
    /\ Len(tasks) = 3
    /\ ~tasks[1].requires_approval
    /\ Len(asked) = 2
    /\ asked[1].answer = "True"
    /\ asked[2].answer = "False"

(* C9: task status is monotonic over the task's lifetime, the same plan     *)
(* being executed again included: every change of status goes forward along *)
(* pending -> in_progress -> {completed, failed} or pending -> failed.      *)
ForwardSteps ==
    { <<"pending", "in_progress">>, <<"pending", "failed">>,
      <<"in_progress", "completed">>, <<"in_progress", "failed">> }

C9_StatusStep ==
    \A k \in Positions :
        tasks'[k].status # tasks[k].status =>
            <<tasks[k].status, tasks'[k].status>> \in ForwardSteps

C9_StatusMonotonic == [][C9_StatusStep]_vars

(* C10: approval_status starts at pending and is set at most once per task: *)
(* once it is approved or rejected, no later step of the orchestrator       *)
(* changes it.                                                              *)
C10_ApprovalStep ==
    \A k \in Positions :
        tasks[k].approval_status # "pending" =>
            tasks'[k].approval_status = tasks[k].approval_status

C10_ApprovalSetOnce == [][C10_ApprovalStep]_vars

-----------------------------------------------------------------------------
(* task_planning.py: create_task_plan called on a ParsedIntent, and called  *)
(* a second time on the same ParsedIntent.                                  *)

InitPlanner ==
    /\ nlu_result \in NluResults
    /\ tasks = <<>>
    /\ prev_plan = <<>>
    /\ uuid_count = 0
    /\ pc = "unplanned"
    /\ i = 1
    /\ results = <<>>
    /\ events = <<>>
    /\ asked = <<>>
    /\ invoked = <<>>
    /\ Alone

\* faulty variant: the templates pop the fields they read from parameters
CreateTaskPlan_PopsParameters ==
    /\ pc \in {"unplanned", "planned"}
    /\ LET out == create_task_plan(nlu_result, uuid_count)
       IN  /\ out.ok
           /\ tasks' = out.value
           /\ prev_plan' = tasks
           /\ uuid_count' = uuid_count + Len(out.value)
           /\ pc' = IF pc = "unplanned" THEN "planned" ELSE "replanned"
    /\ nlu_result' =
          IF "parameters" \in DOMAIN nlu_result
          THEN [nlu_result EXCEPT !.parameters =
                   [k \in DOMAIN nlu_result.parameters
                            \ {"app_name", "date", "time", "amount", "recipient", "metric"}
                       |-> nlu_result.parameters[k]]]
          ELSE nlu_result
    /\ UNCHANGED <<i, results, events, asked, invoked, parked, turn, api_vars>>

\* lines 42-62: tasks = task_planner.create_task_plan(nlu_result)
CreateTaskPlan ==
    /\ pc \in {"unplanned", "planned"}
    /\ LET out == create_task_plan(nlu_result, uuid_count)
       IN  IF out.ok
           THEN /\ tasks' = out.value
                /\ prev_plan' = tasks
                /\ uuid_count' = uuid_count + Len(out.value)
                /\ pc' = IF pc = "unplanned" THEN "planned" ELSE "replanned"
           ELSE /\ pc' = "plan_raised"
                /\ UNCHANGED <<tasks, prev_plan, uuid_count>>
    /\ UNCHANGED <<nlu_result, i, results, events, asked, invoked, parked, turn, api_vars>>

NextPlanner == CreateTaskPlan

SpecPlanner == InitPlanner /\ [][NextPlanner]_vars

-----------------------------------------------------------------------------
(* C11: in every reachable state a task with status = failed has a non-null *)
(* error, and a task with a non-null error has status = failed.             *)
C11_ErrorIffFailed ==
    \A k \in Positions :
        /\ tasks[k].status = "failed" => tasks[k].error # None
        /\ tasks[k].error # None => tasks[k].status = "failed"

(* C12: in every reachable state, the plan being executed again included,   *)
(* a task with approval_status = rejected has status = failed.              *)
C12_RejectedIsFailed ==
    \A k \in Positions :
        tasks[k].approval_status = "rejected" => tasks[k].status = "failed"

C12_Witness ==
    /\ Len(tasks) = 2
    /\ tasks[1].approval_status = "rejected"
    /\ tasks[1].status = "failed"
    /\ tasks[2].status = "completed"

(* C13: frame of a run.  No step of execute_tasks changes the length or the *)
(* order of the plan, or a task's id, action, params, description or        *)
(* requires_approval; only status, approval_status and error change.        *)
C13_FrameStep ==
    /\ Len(tasks') = Len(tasks)
    /\ \A k \in Positions :
          /\ tasks'[k].id = tasks[k].id
          /\ tasks'[k].action = tasks[k].action
          /\ tasks'[k].params = tasks[k].params
          /\ tasks'[k].description = tasks[k].description
          /\ tasks'[k].requires_approval = tasks[k].requires_approval
          /\ DOMAIN tasks'[k] = DOMAIN tasks[k]

C13_Frame == [][C13_FrameStep]_vars

C13_Witness ==
    /\ RunReturned
    /\ Len(tasks) = 3
    /\ tasks[1].status = "completed"
    /\ tasks[1].approval_status = "approved"
    /\ tasks[2].status = "failed"
    /\ tasks[2].error = "Unknown action: send_email"
    /\ tasks[3].approval_status = "rejected"

(* C14: all-success run.  When the run of a plan of n tasks has returned,   *)
(* no task was declined and every task's handler succeeded, the result list *)
(* has n entries, the k-th for the task at position k, the feedback stream  *)
(* has 2n events, started(1), completed(1), started(2), completed(2), ...,  *)
(* and every task is completed.                                             *)
AllSucceed ==
    \A k \in Positions :
        /\ ~RejectedAt(k)
        /\ tasks[k].action \in action_handlers
        /\ CallHandler(tasks[k].action, tasks[k].params).ok

C14_AllSuccess ==
    (RunReturned /\ AllSucceed) =>
        LET n == Len(tasks)
        IN  /\ Len(results) = n
            /\ \A k \in 1..n :
                  /\ results[k].task.id = tasks[k].id
                  /\ results[k].task.status = "completed"
                  /\ results[k].result = CallHandler(tasks[k].action, tasks[k].params).value
                  /\ tasks[k].status = "completed"
            /\ Len(events) = 2 * n
            /\ \A k \in 1..n :
                  /\ events[2 * k - 1].type = "task_started"
                  /\ events[2 * k - 1].task.id = tasks[k].id
                  /\ events[2 * k].type = "task_completed"
                  /\ events[2 * k].task.id = tasks[k].id
                  /\ events[2 * k].result = results[k].result

C14_Witness ==
    /\ RunReturned
    /\ AllSucceed
    /\ Len(tasks) = 3
    /\ \A k \in Positions : tasks[k].approval_status = "approved"
    /\ Len(results) = 3
    /\ Len(events) = 6

-----------------------------------------------------------------------------
(* Vocabulary of the planner's properties *)

Planned == pc \in {"planned", "replanned"}

IntentOf == Get(nlu_result, "intent", PyNone)
ParametersOf == Get(nlu_result, "parameters", EmptyDict)
IntentIs(label) == IntentOf = PyStr(label)

\* A field is given when parameters has its key with a value that is not
\* empty (not None, "", 0 or []); otherwise it is absent.
Given(name) == name \in DOMAIN ParametersOf /\ Truthy(ParametersOf[name])

RequiredFields ==
    [calendar |-> <<"date", "time">>, transaction |-> <<"amount", "recipient">>,
     app_switch |-> <<"app_name">>, analysis |-> <<>>]

AbsentOf(label) == SelectSeq(RequiredFields[label], LAMBDA name : ~Given(name))

ActionsOf(plan) == [n \in DOMAIN plan |-> plan[n].action]

NormalPlans ==
    [transaction |-> <<"verify_payment_details", "confirm_transaction",
                       "execute_transaction">>,
     calendar    |-> <<"check_calendar_availability", "create_calendar_event">>,
     app_switch  |-> <<"check_app_installed", "launch_app">>,
     analysis    |-> <<"fetch_analysis_data", "generate_analysis",
                       "present_analysis_results">>]

(* C15: missing-parameter short-circuit.  For a calendar or a transaction   *)
(* intent with some required field absent (no key, or an empty value), the  *)
(* plan is exactly one request_clarification task whose params.missing is   *)
(* the list of exactly the absent required fields, in the order date, time  *)
(* (amount, recipient); calendar with only date gives missing = ["time"].   *)
C15_ClarificationShortCircuit ==
    \A label \in {"calendar", "transaction"} :
        (Planned /\ IntentIs(label) /\ AbsentOf(label) # <<>>) =>
            /\ Len(tasks) = 1
            /\ tasks[1].action = "request_clarification"
            /\ tasks[1].action \notin {NormalPlans[label][n] : n \in DOMAIN NormalPlans[label]}
            /\ tasks[1].params =
                  [missing |-> PyList([n \in DOMAIN AbsentOf(label) |->
                                          PyStr(AbsentOf(label)[n])])]
            /\ (label = "calendar" /\ ParametersOf = [date |-> PyStr("2024-03-05")])
                  => tasks[1].params.missing = PyList(<<PyStr("time")>>)

C15_Witness ==
    /\ Planned
    /\ IntentIs("transaction")
    /\ DOMAIN ParametersOf = {"payment_method"}
    /\ tasks[1].params.missing = PyList(<<PyStr("amount"), PyStr("recipient")>>)
    /\ tasks[1].description = "I need more information: amount, recipient"

(* C16: normal plans are fixed ordered sequences.  With every required      *)
(* field given, transaction plans verify_payment_details,                   *)
(* confirm_transaction, execute_transaction; calendar plans                 *)
(* check_calendar_availability, create_calendar_event; app_switch plans     *)
(* check_app_installed, launch_app; analysis plans fetch_analysis_data,     *)
(* generate_analysis, present_analysis_results for every parameters         *)
(* mapping, the empty one included.                                         *)
C16_NormalPlans ==
    \A label \in task_templates :
        (Planned /\ IntentIs(label) /\ AbsentOf(label) = <<>>) =>
            ActionsOf(tasks) = NormalPlans[label]

C16_Witness ==
    /\ Planned
    /\ IntentIs("analysis")
    /\ ParametersOf = EmptyDict
    /\ ActionsOf(tasks) = NormalPlans["analysis"]
    /\ tasks[1].description = "Fetching data for None analysis over last week"

(* C17: unsupported-intent fallback.  For an intent that is not app_switch, *)
(* calendar, transaction or analysis the plan is exactly one task with      *)
(* action unsupported_intent and params = {original_text: the intent's      *)
(* original_text}.                                                          *)
C17_Fallback ==
    (Planned /\ ~(\E label \in task_templates : IntentIs(label))) =>
        /\ Len(tasks) = 1
        /\ tasks[1].action = "unsupported_intent"
        /\ DOMAIN tasks[1].params = {"original_text"}
        /\ tasks[1].params.original_text =
              (IF "original_text" \in DOMAIN nlu_result
               THEN nlu_result["original_text"] ELSE PyNone)

C17_Witness ==
    /\ Planned
    /\ IntentIs("weather")
    /\ tasks[1].params = [original_text |-> PyStr("open calendar")]

(* C18: planning never fails.  create_task_plan never raises, and the plan  *)
(* it returns is not empty: it is the normal plan of the intent, a single   *)
(* clarification task or a single fallback task.                            *)
C18_PlanningNeverFails ==
    /\ pc # "plan_raised"
    /\ Planned =>
          /\ Len(tasks) >= 1
          /\ \/ \E label \in task_templates :
                   IntentIs(label) /\ ActionsOf(tasks) = NormalPlans[label]
             \/ ActionsOf(tasks) = <<"request_clarification">>
             \/ ActionsOf(tasks) = <<"unsupported_intent">>

C18_Witness ==
    /\ Planned
    /\ "intent" \notin DOMAIN nlu_result
    /\ "parameters" \notin DOMAIN nlu_result
    /\ "original_text" \notin DOMAIN nlu_result
    /\ ActionsOf(tasks) = <<"unsupported_intent">>

(* C19: planning is deterministic.  The second call of create_task_plan on  *)
(* the same ParsedIntent returns a plan of the same length as the first,    *)
(* with pairwise equal action, params and description in the same order,    *)
(* and no call changes the ParsedIntent.                                    *)
C19_SamePlan ==
    pc = "replanned" =>
        /\ Len(tasks) = Len(prev_plan)
        /\ \A k \in DOMAIN tasks :
              /\ tasks[k].action = prev_plan[k].action
              /\ tasks[k].params = prev_plan[k].params
              /\ tasks[k].description = prev_plan[k].description

C20_FreshTasks ==
    Planned =>
        \A k \in DOMAIN tasks :
            /\ tasks[k].requires_approval = TRUE
            /\ tasks[k].status = "pending"
            /\ tasks[k].approval_status = "pending"
            /\ tasks[k].error = None

C20_Witness ==
    /\ Planned
    /\ IntentIs("calendar")
    /\ Len(tasks) = 2
    /\ tasks[2].action = "create_calendar_event"

-----------------------------------------------------------------------------
(* Vocabulary of the runs with unconstrained callbacks *)

CancelledAt(k) == \E n \in AskedFor(k) : asked[n].answer = "cancelled"

(* C21: cancellation equals rejection.  If the oracle resolved with the     *)
(* "cancelled" outcome for the task at position j, the handler of that task *)
(* is not invoked and no task at a later position is started.               *)
C21_CancelledHalts ==
    \A j \in Positions : CancelledAt(j) =>
        /\ InvokedFor(j) = {}
        /\ \A k \in Positions : k > j => StartedPos(k) = {}

(* C27: result list equals the completed tasks.  Whenever the run has       *)
(* returned, whatever the handlers, the oracle and the sink did, the result *)
(* list is exactly the entries of the tasks whose final status is           *)
(* completed, in plan order, and holds no entry for a task that is failed   *)
(* or pending.                                                              *)
C27_ResultsAreCompleted ==
    RunReturned =>
        /\ Len(results) = Cardinality({k \in Positions : tasks[k].status = "completed"})
        /\ \A n \in DOMAIN results :
              /\ tasks[results[n].task.id].status = "completed"
              /\ \A m \in DOMAIN results : m < n => results[m].task.id < results[n].task.id
        /\ \A k \in Positions :
              tasks[k].status \in {"failed", "pending"} => ResultsFor(k) = {}

(* C28: final states of a run.  When the run has returned and no task was   *)
(* rejected, every task is completed or failed; when the task at position j *)
(* was rejected, every task at a position > j is as the planner made it:    *)
(* status = pending, approval_status = pending, error = null.               *)
NoneRejected == \A k \in Positions : tasks[k].approval_status # "rejected"

C28_FinalStates ==
    RunReturned =>
        /\ NoneRejected => \A k \in Positions : tasks[k].status \in {"completed", "failed"}
        /\ \A j \in Positions : tasks[j].approval_status = "rejected" =>
              \A k \in Positions : k > j =>
                  /\ tasks[k].status = "pending"
                  /\ tasks[k].approval_status = "pending"
                  /\ tasks[k].error = None

C28_Witness ==
    /\ RunReturned
    /\ Len(tasks) = 3
    /\ tasks[1].status = "failed"
    /\ tasks[1].error = SinkError
    /\ tasks[2].approval_status = "rejected"
    /\ tasks[3].status = "pending"

(* C29: a task with requires_approval = false is dispatched without the     *)
(* oracle: the oracle is never invoked for it, its approval_status stays    *)
(* pending, and the step after its task_started event sets it in_progress   *)
(* and leads to the dispatch.                                               *)
C29_NoOracleState ==
    \A k \in Positions : ~tasks[k].requires_approval =>
        /\ AskedFor(k) = {}
        /\ tasks[k].approval_status = "pending"
        /\ \A n \in InvokedFor(k) : invoked[n].approval_status = "pending"

C29_GateStep ==
    (pc = "gate" /\ ~tasks[i].requires_approval) =>
        /\ pc' = "dispatch"
        /\ tasks'[i].status = "in_progress"
        /\ asked' = asked
        /\ events' = events

C29_UngatedDispatch == [](C29_NoOracleState) /\ [][C29_GateStep]_vars

C29_Witness ==
    /\ RunReturned
    /\ Len(tasks) = 2
    /\ ~tasks[1].requires_approval
    /\ tasks[1].status = "completed"
    /\ tasks[1].approval_status = "pending"
    /\ tasks[2].requires_approval
    /\ tasks[2].approval_status = "approved"
    /\ Len(asked) = 1

-----------------------------------------------------------------------------
HasKey(name) == name \in DOMAIN ParametersOf

KeysPresent(label) ==
    \A n \in DOMAIN RequiredFields[label] : HasKey(RequiredFields[label][n])

\* the required fields whose key is in parameters with an empty value
EmptyOf(label) ==
    SelectSeq(RequiredFields[label], LAMBDA name : HasKey(name) /\ ~Given(name))

IsClarification == ActionsOf(tasks) = <<"request_clarification">>

(* C30, as stated: a required field counts as present whenever its key is   *)
(* in parameters, whatever its value.  A transaction (calendar) intent      *)
(* whose parameters contain every required key gets the normal plan, and    *)
(* the clarification plan is returned only when a required key is absent.   *)
C30_KeyPresence ==
    \A label \in {"transaction", "calendar"} :
        (Planned /\ IntentIs(label)) =>
            /\ KeysPresent(label) => ActionsOf(tasks) = NormalPlans[label]
            /\ IsClarification => ~KeysPresent(label)

(* C30, amended: a required field counts as present only when its key is   *)
(* in parameters with a non-empty value (not None, "" or 0).  A transaction *)
(* (calendar) intent gets the normal plan exactly when every required field *)
(* has such a value; otherwise it gets the clarification plan, whose        *)
(* params.missing names also every required field whose key is present with *)
(* an empty value (amount = 0, recipient = "").                             *)
C30_NonEmptyPresence ==
    \A label \in {"transaction", "calendar"} :
        (Planned /\ IntentIs(label)) =>
            /\ ActionsOf(tasks) = NormalPlans[label]
                  <=> \A n \in DOMAIN RequiredFields[label] :
                          /\ HasKey(RequiredFields[label][n])
                          /\ Truthy(ParametersOf[RequiredFields[label][n]])
            /\ ActionsOf(tasks) # NormalPlans[label] =>
                  /\ IsClarification
                  /\ \A n \in DOMAIN EmptyOf(label) :
                        \E m \in DOMAIN tasks[1].params.missing.list :
                            tasks[1].params.missing.list[m] = PyStr(EmptyOf(label)[n])

C30_Witness ==
    /\ Planned
    /\ IntentIs("transaction")
    /\ ParametersOf = [amount |-> PyNum(0), recipient |-> PyStr("Alice")]
    /\ IsClarification
    /\ tasks[1].params.missing = PyList(<<PyStr("amount")>>)

-----------------------------------------------------------------------------
(* execute_tasks run on its own, from the first task to the return, as a    *)
(* function of the plan and of the oracle's answers.                        *)

RECURSIVE SoloRun(_, _, _)
\* lines 66-139: the loop from position k on; st holds the Task objects, the
\* result list and the feedback stream so far
SoloRun(st, k, approve) ==
    IF k > Len(st.tasks) THEN st
    ELSE
      LET t0 == st.tasks[k]
          started == Append(st.events, [type |-> "task_started", task |-> to_dict(t0)])
      IN  IF t0.requires_approval /\ ~approve[k]
          THEN LET t1 == [t0 EXCEPT !.approval_status = "rejected", !.status = "failed",
                                    !.error = "User rejected this task"]
               IN  [tasks |-> [st.tasks EXCEPT ![k] = t1],
                    results |-> st.results,
                    events |-> Append(started, [type |-> "task_rejected",
                                                task |-> to_dict(t1)])]
          ELSE
            LET t1 == [t0 EXCEPT !.approval_status =
                                     IF t0.requires_approval THEN "approved" ELSE @,
                                 !.status = "in_progress"]
            IN  IF t1.action \notin action_handlers
                THEN LET t2 == [t1 EXCEPT !.status = "failed",
                                          !.error = "Unknown action: " \o t1.action]
                     IN  SoloRun([tasks |-> [st.tasks EXCEPT ![k] = t2],
                                  results |-> st.results,
                                  events |-> Append(started,
                                      [type |-> "task_failed", task |-> to_dict(t2),
                                       error |-> t2.error])],
                                 k + 1, approve)
                ELSE
                  LET out == CallHandler(t1.action, t1.params)
                  IN  IF out.ok
                      THEN LET t2 == [t1 EXCEPT !.status = "completed"]
                           IN  SoloRun([tasks |-> [st.tasks EXCEPT ![k] = t2],
                                        results |-> Append(st.results,
                                            [task |-> to_dict(t2), result |-> out.value]),
                                        events |-> Append(started,
                                            [type |-> "task_completed",
                                             task |-> to_dict(t2),
                                             result |-> out.value])],
                                       k + 1, approve)
                      ELSE LET t2 == [t1 EXCEPT !.status = "failed", !.error = out.msg]
                           IN  SoloRun([tasks |-> [st.tasks EXCEPT ![k] = t2],
                                        results |-> st.results,
                                        events |-> Append(started,
                                            [type |-> "task_failed",
                                             task |-> to_dict(t2),
                                             error |-> t2.error])],
                                       k + 1, approve)

\* the plan of a run as the planner made it, and the answers its oracle gave
PlanOf(run) ==
    [k \in DOMAIN run.tasks |->
        [run.tasks[k] EXCEPT !.status = "pending", !.approval_status = "pending",
                             !.error = None]]

AnswersOf(run) ==
    [k \in DOMAIN run.tasks |->
        \E n \in DOMAIN run.asked : run.asked[n].task = k /\ run.asked[n].answer = "True"]

OutcomeAlone(run) ==
    SoloRun([tasks |-> PlanOf(run), results |-> <<>>, events |-> <<>>], 1, AnswersOf(run))

(* C22: independent runs.  When two runs of execute_tasks over plans with   *)
(* no task in common are interleaved at their suspension points, each run   *)
(* that has returned has the feedback stream, the result list and the final *)
(* task states of the same run executed alone with the same oracle answers; *)
(* a step of one run changes nothing of the suspended run.                  *)
C22_SameAsAlone ==
    \A run \in {Running, parked} :
        run.pc = "done" =>
            /\ OutcomeAlone(run).events = run.events
            /\ OutcomeAlone(run).results = run.results
            /\ OutcomeAlone(run).tasks = run.tasks

C22_NoSharedState ==
    turn' = turn => parked' = parked

C22_IndependentRuns == [](C22_SameAsAlone) /\ [][C22_NoSharedState]_vars

C22_Witness ==
    /\ turn = 1
    /\ pc = "done"
    /\ Len(results) = 1
    /\ Len(events) = 2
    /\ parked.pc = "await_handler"
    /\ Len(parked.events) = 1
    /\ parked.tasks[1].status = "in_progress"

-----------------------------------------------------------------------------
(* Vocabulary of the transport layer's properties *)

\* the step serves a /approve-task (a /command) request
ApproveStep == response' # response /\ response'.op = "approve"
CommandStep == response' # response /\ response'.op = "command"

SessionExists(session_id) == session_id \in DOMAIN active_sessions

\* the ids of the tasks of the plan stored for the session
PlanIds(session_id) ==
    {active_sessions[session_id].tasks[k].id : k \in DOMAIN active_sessions[session_id].tasks}

(* C23: session approval outcome.  For an existing session with status      *)
(* pending_approval and a task_id of its stored plan, approve_task with     *)
(* approved = true dispatches that one task and sets the session status to  *)
(* completed; with approved = false it dispatches nothing and sets the      *)
(* session status to rejected.                                              *)
C23_ApprovalStep ==
    LET req == response'.request
    IN  (/\ ApproveStep
         /\ SessionExists(req.session_id)
         /\ active_sessions[req.session_id].status = "pending_approval"
         /\ req.task_id \in PlanIds(req.session_id)) =>
            IF req.approved
            THEN /\ dispatched' = Append(dispatched, req.task_id)
                 /\ active_sessions'[req.session_id].status = "completed"
            ELSE /\ dispatched' = dispatched
                 /\ active_sessions'[req.session_id].status = "rejected"

C23_ApprovalOutcome == [][C23_ApprovalStep]_vars

(* C24: approve_task with a task_id that is not in the plan of an existing  *)
(* session answers 404 (not found), not an internal error, and leaves the   *)
(* session's status and stored plan unchanged.                              *)
C24_UnknownTaskStep ==
    LET req == response'.request
    IN  (/\ ApproveStep
         /\ SessionExists(req.session_id)
         /\ req.task_id \notin PlanIds(req.session_id)) =>
            /\ response'.code = 404
            /\ active_sessions'[req.session_id] = active_sessions[req.session_id]

C24_UnknownTask == [][C24_UnknownTaskStep]_vars

(* C25: approve_task with a session_id that is not in active_sessions       *)
(* answers 404 (not found), dispatches no task and leaves active_sessions   *)
(* unchanged.                                                               *)
C25_UnknownSessionStep ==
    (ApproveStep /\ ~SessionExists(response'.request.session_id)) =>
        /\ response'.code = 404
        /\ dispatched' = dispatched
        /\ active_sessions' = active_sessions

C25_UnknownSession == [][C25_UnknownSessionStep]_vars

C25_Witness ==
    /\ response.op = "approve"
    /\ response.code = 404
    /\ response.request.session_id = "unknown"
    /\ response.request.approved
    /\ Cardinality(DOMAIN active_sessions) = 2
    /\ dispatched = <<>>

(* C26: process_command, when it answers the request, has stored the newly  *)
(* planned task list under the session id (the supplied one, or a fresh one *)
(* when none, or an empty one, is supplied) with session status             *)
(* pending_approval, and returns that session id with the tasks it stored.  *)
C26_StoredStep ==
    (CommandStep /\ response'.code = 200) =>
        LET req == response'.request
            sid == response'.session_id
        IN  /\ IF Truthy(req.session_id)
               THEN sid = req.session_id.str
               ELSE ~SessionExists(sid) /\ sid \notin {"", "s1"}
            /\ sid \in DOMAIN active_sessions'
            /\ active_sessions'[sid].status = "pending_approval"
            /\ active_sessions'[sid].parsed_intent = response'.parsed_intent
            /\ Len(active_sessions'[sid].tasks) >= 1
            /\ response'.tasks = [k \in DOMAIN active_sessions'[sid].tasks |->
                                     to_dict(active_sessions'[sid].tasks[k])]
            /\ \A k \in DOMAIN active_sessions'[sid].tasks :
                  /\ active_sessions'[sid].tasks[k].id > uuid_count
                  /\ active_sessions'[sid].tasks[k].status = "pending"
            /\ \A other \in DOMAIN active_sessions \ {sid} :
                  active_sessions'[other] = active_sessions[other]

C26_CommandStored == [][C26_StoredStep]_vars

C26_Witness ==
    /\ response.op = "command"
    /\ response.code = 200
    /\ response.request.session_id = PyStr("s1")
    /\ response.session_id = "s1"
    /\ Len(response.tasks) = 3
    /\ "s1" \in DOMAIN active_sessions
    /\ active_sessions["s1"].status = "pending_approval"
    /\ Cardinality(DOMAIN active_sessions) = 2

-----------------------------------------------------------------------------
AppSwitchWithoutApp == Planned /\ IntentIs("app_switch") /\ ~Given("app_name")

(* C31, as stated: an app_switch intent whose parameters lack app_name gets *)
(* exactly one request_clarification task whose params.missing is the list  *)
(* ["app_name"], the shape of the calendar and transaction clarifications.  *)
C31_ListMissing ==
    AppSwitchWithoutApp =>
        /\ ActionsOf(tasks) = <<"request_clarification">>
        /\ tasks[1].params.missing = PyList(<<PyStr("app_name")>>)

(* C31, amended: an app_switch intent whose parameters lack app_name (no    *)
(* key, or an empty value) gets exactly one request_clarification task      *)
(* whose params.missing is the string "app_name", not a list; the           *)
(* request_clarification handler turns it into the list ["app_name"] in     *)
(* the missing_parameters of its result.                                    *)
C31_StrMissing ==
    AppSwitchWithoutApp =>
        /\ ActionsOf(tasks) = <<"request_clarification">>
        /\ tasks[1].params = [missing |-> PyStr("app_name")]
        /\ tasks[1].description = "Which app would you like to open?"
        /\ CallHandler(tasks[1].action, tasks[1].params).ok
        /\ CallHandler(tasks[1].action, tasks[1].params).value.missing_parameters
              = PyList(<<PyStr("app_name")>>)

C31_Witness ==
    /\ AppSwitchWithoutApp
    /\ ParametersOf = [app_name |-> PyStr("")]
    /\ IsStr(tasks[1].params.missing)
    /\ tasks[1].params.missing.str = "app_name"

-----------------------------------------------------------------------------
(* C32 *)

\* the plan under execution was built by create_task_plan
FromPlanner == nlu_result # Absent

\* the error text execute_tasks gives a task whose action is not registered
UnknownActionError(task) == "Unknown action: " \o task.action

\* C32: planner/registry agreement.  Every action name of a plan that
\* create_task_plan built, whatever the intent and the parameters mapping, is
\* a key of the action registry, and at no point of the plan's execution does
\* a task carry an "Unknown action" error, nor is a task_failed event emitted
\* with one.
C32_PlannerRegistryAgree ==
    FromPlanner =>
        /\ pc # "emit_failed_unknown"
        /\ \A k \in DOMAIN tasks :
              /\ tasks[k].action \in action_handlers
              /\ ~UnknownAt(k)
              /\ tasks[k].error # UnknownActionError(tasks[k])
        /\ \A n \in DOMAIN events :
              events[n].type = "task_failed" =>
                  events[n].error # UnknownActionError(events[n].task)

\* the fallback plan of an unsupported intent, or a three-task transaction
\* plan, has been executed to the end
C32_Witness ==
    /\ FromPlanner
    /\ RunReturned
    /\ ActionsOf(tasks) \in { <<"unsupported_intent">>,
                              <<"verify_payment_details", "confirm_transaction",
                                "execute_transaction">> }
    /\ \A k \in DOMAIN tasks : tasks[k].status = "completed"
    /\ Len(results) = Len(tasks)

-----------------------------------------------------------------------------
(* C33 *)

\* the plan was built for an app_switch to an app the device does not have
SwitchToMissingApp ==
    /\ FromPlanner
    /\ IntentIs("app_switch")
    /\ Given("app_name")
    /\ IsStr(ParametersOf["app_name"])
    /\ ParametersOf["app_name"].str \notin installed_apps

\* C33: no data flow between steps.  When the app_switch plan for an app that
\* is not installed has been executed with every task approved, the first task
\* (check_app_installed) is completed with result installed = false; the
\* second (launch_app) was nevertheless started, put to the oracle and
\* dispatched, and has failed with error "App '<name>' is not installed".  The
\* feedback stream has the 4 events started, completed, started, failed, and
\* the returned result list has exactly one entry, that of the check.
C33_NoDataFlow ==
    (SwitchToMissingApp /\ RunReturned /\ NoneRejected) =>
        LET app_name == ParametersOf["app_name"]
        IN  /\ ActionsOf(tasks) = <<"check_app_installed", "launch_app">>
            /\ tasks[1].status = "completed"
            /\ tasks[2].params = [app_name |-> app_name]
            /\ Cardinality(StartedPos(2)) = 1
            /\ Cardinality(AskedFor(2)) = 1
            /\ ApprovedAt(2)
            /\ Cardinality(InvokedFor(2)) = 1
            /\ tasks[2].status = "failed"
            /\ tasks[2].error = "App '" \o app_name.str \o "' is not installed"
            /\ TypesOf(events) = <<"task_started", "task_completed",
                                   "task_started", "task_failed">>
            /\ events[4].task.id = tasks[2].id
            /\ events[4].error = tasks[2].error
            /\ Len(results) = 1
            /\ results[1].task.id = tasks[1].id
            /\ results[1].result = [installed |-> FALSE, app_name |-> app_name]

C33_Witness ==
    /\ SwitchToMissingApp
    /\ RunReturned
    /\ NoneRejected
    /\ ParametersOf["app_name"] = PyStr("slack")
    /\ tasks[2].error = "App 'slack' is not installed"
    /\ Len(events) = 4

-----------------------------------------------------------------------------
(* C34 *)

\* no task has two task_started events or two handler calls
StartedAndInvokedOnce ==
    \A k \in Positions :
        /\ Cardinality(StartedPos(k)) <= 1
        /\ Cardinality(InvokedFor(k)) <= 1

\* C34: termination.  When every approval request and every handler call
\* resolves (the fairness of SpecFair), every run of execute_tasks over a
\* finite plan eventually returns, and at every point of the run each task has
\* been started at most once and its handler invoked at most once.
C34_Terminates == <>RunReturned /\ []StartedAndInvokedOnce

\* a run over a plan of three tasks has returned after a handler result, a
\* handler failure and an unknown action
C34_Witness ==
    /\ RunReturned
    /\ Len(tasks) >= 3
    /\ NoneRejected
    /\ \E k \in Positions : tasks[k].status = "completed"
    /\ \E k \in Positions : HandlerFailedAt(k)
    /\ \E k \in Positions : UnknownAt(k)
    /\ \A k \in Positions : Cardinality(StartedPos(k)) = 1

-----------------------------------------------------------------------------
(* C35 *)

\* the step in which the sink, handed a task_started, task_rejected or
\* task_failed event, raises instead of taking it
SinkRaisesStep ==
    /\ \/ pc = "loop" /\ i <= Len(tasks)
       \/ pc \in {"emit_rejected", "emit_failed_unknown", "emit_failed_error"}
    /\ events' = events
    /\ pc' # pc

\* the step in which the approval oracle raises
OracleRaisesStep ==
    /\ pc = "await_approval"
    /\ asked'[Len(asked')].answer = "raised"

\* C35: only handler failures are contained.  An exception raised by the
\* approval oracle, or by the feedback sink while it is handed task_started,
\* task_rejected or task_failed, ends the run with the exception (no result
\* list is returned, no task is changed by the step); after an oracle
\* exception the current task has status = pending and approval_status =
\* pending, its task_started event is in the stream and no terminal event of
\* it is.
C35_ContainStep ==
    /\ SinkRaisesStep => (pc' = "raised" /\ tasks' = tasks)
    /\ OracleRaisesStep =>
          /\ pc' = "raised"
          /\ tasks'[i].status = "pending"
          /\ tasks'[i].approval_status = "pending"
          /\ \E n \in DOMAIN events' :
                events'[n].type = "task_started" /\ events'[n].task.id = tasks[i].id
          /\ \A n \in DOMAIN events' :
                events'[n].task.id = tasks[i].id => events'[n].type \notin TerminalTypes

C35_OnlyHandlerFailuresContained == [][C35_ContainStep]_vars

-----------------------------------------------------------------------------
(* C36 *)

\* the values the code assigns to a session's status (lines 62, 107, 114)
SessionStatuses == {"pending_approval", "completed", "rejected"}

\* C36: the frame of process_command.  A /command request that is answered
\* 200 writes the entry of its own session id only: every other session keeps
\* its plan and status, and no session disappears.  When the session id was
\* already stored, the entry now holds the new plan (the one of the response,
\* with fresh task ids) and the status pending_approval, and the assignment
\* gives that entry whichever status the session had before.  A request that
\* is answered with an error writes nothing.
C36_FrameStep ==
    CommandStep =>
        IF response'.code = 200
        THEN LET sid == response'.session_id
                 entry == active_sessions'[sid]
             IN  /\ DOMAIN active_sessions' = DOMAIN active_sessions \cup {sid}
                 /\ \A other \in DOMAIN active_sessions \ {sid} :
                       active_sessions'[other] = active_sessions[other]
                 /\ SessionExists(sid) =>
                       /\ response'.request.session_id = PyStr(sid)
                       /\ entry.status = "pending_approval"
                       /\ entry.parsed_intent = response'.parsed_intent
                       /\ response'.tasks = [k \in DOMAIN entry.tasks |->
                                                to_dict(entry.tasks[k])]
                       /\ entry.tasks # active_sessions[sid].tasks
                       /\ \A k \in DOMAIN entry.tasks : entry.tasks[k].id > uuid_count
                       /\ \A before \in SessionStatuses :
                             Store([active_sessions EXCEPT ![sid].status = before],
                                   sid, entry) = active_sessions'
        ELSE active_sessions' = active_sessions

C36_CommandFrame == [][C36_FrameStep]_vars

\* the last request was a /command for the stored session "s1": its plan was
\* replaced while another session is stored
C36_Witness ==
    /\ response.op = "command"
    /\ response.code = 200
    /\ response.request.session_id = PyStr("s1")
    /\ prev_plan # <<>>
    /\ "s1" \in DOMAIN active_sessions
    /\ active_sessions["s1"].tasks # prev_plan
    /\ active_sessions["s1"].status = "pending_approval"
    /\ DOMAIN active_sessions # {"s1"}

====
